---- MODULE Spec2Model ----
(***************************************************************************)
(* Playback scheduling core of mock-tsunagaru: PlaybackEngine (tick loop,  *)
(* region sequencing, cycle barrier), TimingController (AudioContext based *)
(* clock) and the duration helpers of SignageEngine.tsx.                   *)
(*                                                                         *)
(* Time is counted in whole seconds.  audioTime is AudioContext.currentTime*)
(* and only moves in AdvanceTime; a frame callback may run at any instant, *)
(* so any number of seconds may pass between two ticks.                    *)
(***************************************************************************)
EXTENDS Integers, Sequences, FiniteSets, TLC

VARIABLES
  audioContext,      \* TimingController.audioContext # null
  audioTime,         \* AudioContext.currentTime
  timing,            \* TimingController: startTime, pausedAt, isPaused, totalPausedDuration
  loop,              \* EngineConfig.loop
  status,            \* EngineState.status
  playlist,          \* EngineState.playlist / layout (set together), NoPlaylist when null
  currentTime,       \* EngineState.currentTime
  cycleCount,        \* EngineState.cycleCount
  regions,           \* EngineState.regions: regionId -> RegionPlaybackState
  animationFrameId,  \* "null" or "set"
  frames,            \* outstanding requestAnimationFrame callbacks, oldest first;
                     \* TRUE marks the callback whose id is in animationFrameId
  loading,           \* position of a load() in progress: NotLoading or [pl, pos]
  signals,           \* completion callbacks the presentation adapter still holds
  emitted,           \* events handed to emit() by the last operation, in order
  lastOp,            \* name of the last operation (observation only)
  mid,               \* the last tick or notification: the clock's time, the regions as
                     \* the advances left them, whether the cycle was declared complete
  cycles,            \* engine time the running cycle began at, time the first and the
                     \* latest completed cycle took (observation only, kept when on)
  calls,             \* number of load/play/pause/stop/dispose calls made so far
  clock,             \* what a stopwatch run alongside the TimingController shows (SpecClock only)
  sample,            \* input and result of the duration rule (SpecDuration only)
  history,           \* whether a load() has completed, and the session the load() in
                     \* progress found when it was called (observation only, kept when on)
  listeners,         \* PlaybackEngine.listeners in insertion order: "ok" or "throws"
  received,          \* the events each listener was called with by the last operation
  hls                \* HlsRenderer: stream state, retry count, timers (SpecStream only)

vars == <<audioContext, audioTime, timing, loop, status, playlist, currentTime,
          cycleCount, regions, animationFrameId, frames, loading, signals,
          emitted, lastOp, mid, cycles, calls, clock, sample,
          history, listeners, received, hls>>

----------------------------------------------------------------------------
(* Bounds *)

MaxTime == 3        \* audioTime stops here
MaxCycleTime == 5   \* audioTime stops here when whole cycles are timed (SpecCycles)
MaxClockTime == 5   \* audioTime stops here when the clock runs on its own (SpecClock)
MaxFrames == 2       \* outstanding frame callbacks
MaxCycles == 2       \* cycleCount stops here
MaxSignals == 1      \* pending completion callbacks
MaxCalls == 4        \* load/play/pause/stop/dispose calls in one run
MaxIdleTime == 1     \* latest clock time at which playback is first started or restarted
MaxListeners == 2    \* subscribed listeners
MaxStreamTime == 6   \* seconds the stream view is watched for (SpecStream)
MaxRunTime == 3      \* elapsed time up to which frames may come late (SpecRun)

(* Program constants *)

defaultDuration == 10        \* DEFAULT_ENGINE_CONFIG.defaultDuration
youtubeDuration == 60        \* PlaybackEngine.getContentDuration, youtube
placeholderDuration == 3600  \* helper getContentDuration, unknown video
maxRetries == 3              \* HlsRenderer.maxRetries
retryInterval == 5           \* HlsRenderer.retryInterval (5000 ms), in seconds

----------------------------------------------------------------------------
(* Content store, layout and playlists *)

Absent == -1                 \* undefined / null
NoPlaylist == "none"
NotLoading == [pl |-> "none", pos |-> 0]

RegionOrder == <<"A", "B">>  \* layout.regions

\* ContentItem: id, type, fileInfo.metadata.duration
ContentItem(id, type, metaDuration) ==
  [id |-> id, type |-> type, metaDuration |-> metaDuration]

\* contentLoader(id): the item, or null for an id the store does not know
contentLoader(id) ==
  CASE id = "img"  -> ContentItem("img", "image", Absent)
    [] id = "pic"  -> ContentItem("pic", "image", Absent)
    [] id = "vid"  -> ContentItem("vid", "video", Absent)
    [] id = "vidM" -> ContentItem("vidM", "video", 3)
    [] id = "live" -> ContentItem("live", "hls", Absent)
    [] OTHER       -> ContentItem("null", "null", Absent)

NullItem == ContentItem("null", "null", Absent)
IsNullItem(c) == c.type = "null"

\* PlayingContent: content, startTime, duration, endTime; NoContent stands for
\* currentContent = null
NoContent == [content |-> NullItem, startTime |-> 0, duration |-> 0, endTime |-> 0]
IsNull(cc) == IsNullItem(cc.content)

\* ContentAssignment: contentIds and contentDurations ({contentId, duration})
Assignment(ids, durs) == [contentIds |-> ids, contentDurations |-> durs]
Dur(id, d) == [contentId |-> id, duration |-> d]
NoAssignment == Assignment(<<>>, <<>>)

\* playlist.contentAssignments.find(a => a.regionId === region.id)
Playlists ==
  [ example |-> [A |-> Assignment(<<"img", "vid">>, <<Dur("img", 2)>>),
                 B |-> Assignment(<<"img">>, <<Dur("img", 1)>>)],
    fixed   |-> [A |-> Assignment(<<"img", "vidM">>, <<Dur("img", 1), Dur("vidM", 1)>>),
                 B |-> Assignment(<<"gone", "pic", "live">>, <<Dur("pic", 1), Dur("live", 1)>>)],
    empty   |-> [A |-> Assignment(<<"gone">>, <<>>),
                 B |-> NoAssignment],
    mixed   |-> [A |-> Assignment(<<"vidM", "live">>, <<Dur("vidM", 1), Dur("live", 2)>>),
                 B |-> Assignment(<<"pic">>, <<Dur("pic", 1)>>)] ]

\* the playlists load() is called with (mixed is played in SpecLive only)
PlaylistIds == {"example", "fixed", "empty"}

----------------------------------------------------------------------------
(* Duration resolution *)

\* JavaScript truthiness of an optional number
Truthy(d) == d # Absent /\ d # 0

\* contentDurations.find(d => d.contentId === id): index of the first match, 0 if none
FindDuration(durs, id) ==
  IF \E i \in 1..Len(durs) : durs[i].contentId = id
  THEN CHOOSE i \in 1..Len(durs) :
         /\ durs[i].contentId = id
         /\ \A j \in 1..(i - 1) : durs[j].contentId # id
  ELSE 0

\* getContentDuration with the video's own duration looked at before the override
getContentDuration_VideoFirst(content, assignment) ==
  LET i == FindDuration(assignment.contentDurations, content.id) IN
  IF content.type = "video" /\ Truthy(content.metaDuration) THEN content.metaDuration
  ELSE IF i # 0 THEN assignment.contentDurations[i].duration
  ELSE IF content.type = "youtube" THEN youtubeDuration
  ELSE defaultDuration

\* PlaybackEngine.getContentDuration
getContentDuration(content, assignment) ==
  LET i == FindDuration(assignment.contentDurations, content.id) IN
  IF i # 0 THEN assignment.contentDurations[i].duration
  ELSE IF content.type = "video" /\ Truthy(content.metaDuration) THEN content.metaDuration
  ELSE IF content.type = "youtube" THEN youtubeDuration
  ELSE defaultDuration

\* helper getContentDuration of SignageEngine.tsx (progress reporting);
\* detected is the set of content ids with a detected duration, detectedValue its value
helperContentDuration(content, assignment, detected, detectedValue) ==
  LET i == FindDuration(assignment.contentDurations, content.id) IN
  IF i # 0 THEN assignment.contentDurations[i].duration
  ELSE IF content.type = "video"
       THEN IF Truthy(content.metaDuration) THEN content.metaDuration
            ELSE IF content.id \in detected THEN detectedValue
            ELSE placeholderDuration
  ELSE defaultDuration

----------------------------------------------------------------------------
(* TimingController *)

TimingZero == [startTime |-> 0, pausedAt |-> 0, isPaused |-> FALSE, totalPausedDuration |-> 0]

\* TimingController.start with the paused total overwritten by the last pause
timingStart_LastPauseOnly(t, now) ==
  IF t.isPaused
  THEN [t EXCEPT !.totalPausedDuration = now - t.pausedAt, !.isPaused = FALSE]
  ELSE [t EXCEPT !.startTime = now, !.totalPausedDuration = 0]

\* TimingController.start (the caller has checked audioContext)
timingStart(t, now) ==
  IF t.isPaused
  THEN [t EXCEPT !.totalPausedDuration = @ + (now - t.pausedAt), !.isPaused = FALSE]
  ELSE [t EXCEPT !.startTime = now, !.totalPausedDuration = 0]

\* TimingController.pause
timingPause(t, ctx, now) ==
  IF ~ctx \/ t.isPaused THEN t
  ELSE [t EXCEPT !.pausedAt = now, !.isPaused = TRUE]

\* TimingController.reset leaving the pause flag as it is
timingReset_KeepPause(t, ctx, now) ==
  IF ~ctx THEN t
  ELSE [startTime |-> now, pausedAt |-> 0, isPaused |-> t.isPaused, totalPausedDuration |-> 0]

\* TimingController.reset
timingReset(t, ctx, now) ==
  IF ~ctx THEN t
  ELSE [startTime |-> now, pausedAt |-> 0, isPaused |-> FALSE, totalPausedDuration |-> 0]

\* TimingController.getCurrentTime reading the running clock also while paused
getCurrentTime_NotFrozen(t, ctx, now) ==
  IF ~ctx THEN 0
  ELSE now - t.startTime - t.totalPausedDuration

\* TimingController.getCurrentTime
getCurrentTime(t, ctx, now) ==
  IF ~ctx THEN 0
  ELSE IF t.isPaused THEN t.pausedAt - t.startTime - t.totalPausedDuration
  ELSE now - t.startTime - t.totalPausedDuration

\* what a tick would read from the clock in the current state
EngineNow == getCurrentTime(timing, audioContext, audioTime)

----------------------------------------------------------------------------
(* Events and the per-frame callback bookkeeping *)

\* EngineEvent; fields an event kind does not carry hold "-" or 0
Event(type, regionId, contentId, index, count, st) ==
  [type |-> type, regionId |-> regionId, content |-> contentId, index |-> index,
   cycleCount |-> count, status |-> st]
ContentChange(regionId, content, index) == Event("contentChange", regionId, content.id, index, 0, "-")
CycleComplete(count) == Event("cycleComplete", "-", "-", 0, count, "-")
StatusChange(st) == Event("statusChange", "-", "-", 0, 0, st)

\* PlaybackEngine.setStatus: the statusChange event, if any
setStatus(old, new) == IF old = new THEN <<>> ELSE <<StatusChange(new)>>

\* a listener is a callback that returns ("ok") or throws ("throws")
ListenerKinds == {"ok", "throws"}
Throws(l) == l = "throws"

\* the for loop of emit from the listener at position i on: the listeners called
\* and whether an exception leaves the loop; catch tells whether the call is
\* wrapped in try/catch
RECURSIVE emitLoop(_, _, _)
emitLoop(ls, i, catch) ==
  IF i > Len(ls) THEN [called |-> {}, threw |-> FALSE]
  ELSE IF Throws(ls[i]) /\ ~catch THEN [called |-> {i}, threw |-> TRUE]
  ELSE LET rest == emitLoop(ls, i + 1, catch) IN
       [called |-> {i} \cup rest.called, threw |-> rest.threw]

\* emit with the listener called outside any try/catch
emit_NoCatch(ls, event) == emitLoop(ls, 1, FALSE)

\* PlaybackEngine.emit
emit(ls, event) == emitLoop(ls, 1, TRUE)

\* the emit calls of one operation, in order: what each listener was called with,
\* and whether an exception left emit (the operation ends there)
RECURSIVE EmitAll(_, _)
EmitAll(ls, events) ==
  IF events = <<>> THEN [received |-> [i \in 1..Len(ls) |-> <<>>], threw |-> FALSE]
  ELSE LET one == emit(ls, Head(events))
           got == [i \in 1..Len(ls) |-> IF i \in one.called THEN <<Head(events)>> ELSE <<>>]
       IN IF one.threw THEN [received |-> got, threw |-> TRUE]
          ELSE LET rest == EmitAll(ls, Tail(events)) IN
               [received |-> [i \in 1..Len(ls) |-> got[i] \o rest.received[i]],
                threw |-> rest.threw]

\* requestAnimationFrame(loop) with the id stored in animationFrameId
RequestFrame(fs) == Append([i \in 1..Len(fs) |-> FALSE], TRUE)

\* cancelAnimationFrame(animationFrameId): a callback that already ran is not there any more
CancelFrame(fs) == SelectSeq(fs, LAMBDA b : ~b)

\* PlaybackEngine.stopLoop
stopLoop(afid, fs) ==
  IF afid # "null" THEN [id |-> "null", frames |-> CancelFrame(fs)]
  ELSE [id |-> afid, frames |-> fs]

----------------------------------------------------------------------------
(* Region sequencing *)

\* RegionPlaybackState (nextContent and isPreloaded are never set to anything
\* but null / false and are left out)
RegionState(assignment, contents) ==
  [assignment |-> assignment, contents |-> contents, currentIndex |-> 0,
   currentContent |-> NoContent]

EmptyRegions == [r \in {} |-> RegionState(NoAssignment, <<>>)]

\* iteration order of the regions Map: insertion order, which is layout order
RegionIds(regs) == SelectSeq(RegionOrder, LAMBDA r : r \in DOMAIN regs)

\* contents[i] with JavaScript's 0-based index
At(contents, i) == contents[i + 1]

\* advanceToNextContent with the next item scheduled from the previous item's end
advanceToNextContent_FromScheduledEnd(rs, t) ==
  LET nextIndex == rs.currentIndex + 1 IN
  IF nextIndex >= Len(rs.contents)
  THEN [rs EXCEPT !.currentContent = NoContent]
  ELSE LET content == At(rs.contents, nextIndex)
           duration == getContentDuration(content, rs.assignment)
           from == rs.currentContent.endTime
       IN [rs EXCEPT !.currentIndex = nextIndex,
                     !.currentContent = [content |-> content, startTime |-> from,
                                         duration |-> duration, endTime |-> from + duration]]

\* advanceToNextContent going back to the first item after the last one
advanceToNextContent_Wrap(rs, t) ==
  LET nextIndex == (rs.currentIndex + 1) % Len(rs.contents)
      content == At(rs.contents, nextIndex)
      duration == getContentDuration(content, rs.assignment)
  IN [rs EXCEPT !.currentIndex = nextIndex,
                !.currentContent = [content |-> content, startTime |-> t,
                                    duration |-> duration, endTime |-> t + duration]]

\* PlaybackEngine.advanceToNextContent
advanceToNextContent(rs, t) ==
  LET nextIndex == rs.currentIndex + 1 IN
  IF nextIndex >= Len(rs.contents)
  THEN [rs EXCEPT !.currentContent = NoContent]
  ELSE LET content == At(rs.contents, nextIndex)
           duration == getContentDuration(content, rs.assignment)
       IN [rs EXCEPT !.currentIndex = nextIndex,
                     !.currentContent = [content |-> content, startTime |-> t,
                                         duration |-> duration, endTime |-> t + duration]]

\* the contentChange advanceToNextContent emits, if any
AdvanceEvents(r, rs) ==
  IF rs.currentIndex + 1 >= Len(rs.contents) THEN <<>>
  ELSE <<ContentChange(r, At(rs.contents, rs.currentIndex + 1), rs.currentIndex + 1)>>

RECURSIVE TimerStep_CatchUp(_, _)
\* the loop body of updateRegions catching up after a late tick: every item whose
\* scheduled end has passed is gone through in the same tick
TimerStep_CatchUp(rs, t) ==
  IF IsNull(rs.currentContent) THEN rs
  ELSE IF t >= rs.currentContent.endTime
       THEN TimerStep_CatchUp(advanceToNextContent_FromScheduledEnd(rs, t), t)
  ELSE rs

\* the loop body of updateRegions for one region: advance when the item has ended
TimerStep(rs, t) ==
  IF IsNull(rs.currentContent) THEN rs
  ELSE IF t >= rs.currentContent.endTime THEN advanceToNextContent(rs, t)
  ELSE rs

\* the loop body of updateRegions taking a region that shows nothing for unfinished
RegionComplete_DarkUnfinished(before, after, t) ==
  /\ ~IsNull(before.currentContent)
  /\ LET isLastContent == after.currentIndex >= Len(after.contents) - 1
         isContentPlaying == ~IsNull(after.currentContent) /\ t < after.currentContent.endTime
     IN ~(~isLastContent \/ isContentPlaying)

\* whether the loop body of updateRegions leaves allRegionsComplete untouched for
\* this region; before is the region at loop entry, after the region once advanced
RegionComplete(before, after, t) ==
  \/ IsNull(before.currentContent)
  \/ LET isLastContent == after.currentIndex >= Len(after.contents) - 1
         isContentPlaying == ~IsNull(after.currentContent) /\ t < after.currentContent.endTime
     IN ~(~isLastContent \/ isContentPlaying)

RECURSIVE FlatEvents(_, _, _, _)
\* events of a pass over the regions in Map order; kind selects the emitter
FlatEvents(ids, regs, t, kind) ==
  IF ids = <<>> THEN <<>>
  ELSE LET r == Head(ids)
           rs == regs[r]
           ev == CASE kind = "seed" -> <<ContentChange(r, At(rs.contents, 0), 0)>>
                   [] kind = "timer" ->
                        IF ~IsNull(rs.currentContent) /\ t >= rs.currentContent.endTime
                        THEN AdvanceEvents(r, rs) ELSE <<>>
       IN ev \o FlatEvents(Tail(ids), regs, t, kind)

\* initializeRegionContents starting the items at the elapsed time the state holds
initializeRegionContents_FromStateTime(regs) ==
  [r \in DOMAIN regs |->
     LET content == At(regs[r].contents, 0)
         duration == getContentDuration(content, regs[r].assignment)
     IN [regs[r] EXCEPT !.currentContent = [content |-> content, startTime |-> currentTime,
                                            duration |-> duration,
                                            endTime |-> currentTime + duration],
                        !.currentIndex = 0]]

\* PlaybackEngine.initializeRegionContents: every region starts item 0 at time 0
\* (load() stores no region with an empty contents array)
initializeRegionContents(regs) ==
  [r \in DOMAIN regs |->
     LET content == At(regs[r].contents, 0)
         duration == getContentDuration(content, regs[r].assignment)
         currentTime0 == 0
     IN [regs[r] EXCEPT !.currentContent = [content |-> content, startTime |-> currentTime0,
                                            duration |-> duration,
                                            endTime |-> currentTime0 + duration],
                        !.currentIndex = 0]]

\* startNewCycle seeding at time 0, as the first play() does
startNewCycle_SeedAtZero(regs, t) ==
  [r \in DOMAIN regs |->
     LET content == At(regs[r].contents, 0)
         duration == getContentDuration(content, regs[r].assignment)
     IN [regs[r] EXCEPT !.currentIndex = 0,
                        !.currentContent = [content |-> content, startTime |-> 0,
                                            duration |-> duration, endTime |-> duration]]]

\* startNewCycle with the end time left relative to the cycle start
startNewCycle_EndIsDuration(regs, t) ==
  [r \in DOMAIN regs |->
     LET content == At(regs[r].contents, 0)
         duration == getContentDuration(content, regs[r].assignment)
     IN [regs[r] EXCEPT !.currentIndex = 0,
                        !.currentContent = [content |-> content, startTime |-> t,
                                            duration |-> duration, endTime |-> duration]]]

\* PlaybackEngine.startNewCycle: every region restarts item 0 at the clock's time
startNewCycle(regs, t) ==
  [r \in DOMAIN regs |->
     LET content == At(regs[r].contents, 0)
         duration == getContentDuration(content, regs[r].assignment)
     IN [regs[r] EXCEPT !.currentIndex = 0,
                        !.currentContent = [content |-> content, startTime |-> t,
                                            duration |-> duration, endTime |-> t + duration]]]

\* the region reset of PlaybackEngine.stop
ResetRegions(regs) ==
  [r \in DOMAIN regs |-> [regs[r] EXCEPT !.currentIndex = 0, !.currentContent = NoContent]]

\* regions after the for loop of updateRegions
AdvancedRegions(regs, t) == [r \in DOMAIN regs |-> TimerStep(regs[r], t)]

\* allRegionsComplete after the for loop of updateRegions
allRegionsComplete(regs, t) ==
  \A r \in DOMAIN regs : RegionComplete(regs[r], TimerStep(regs[r], t), t)

----------------------------------------------------------------------------
(* Presentation adapter callbacks *)

AllRegions == {RegionOrder[i] : i \in 1..Len(RegionOrder)}

\* regions whose current item is not the one it was
Changed(old, new) ==
  {r \in AllRegions :
     \/ (r \in DOMAIN old) # (r \in DOMAIN new)
     \/ /\ r \in DOMAIN old
        /\ r \in DOMAIN new
        /\ \/ old[r].currentContent # new[r].currentContent
           \/ old[r].currentIndex # new[r].currentIndex
           \/ old[r].contents # new[r].contents}

\* a callback armed for an item is stale once its region shows something else
Stale(sigs, old, new) ==
  {[region |-> s.region, stale |-> s.stale \/ s.region \in Changed(old, new)] : s \in sigs}

NoBarrier == [declared |-> FALSE, now |-> 0, regions |-> EmptyRegions, region |-> "-"]
NoSample == [content |-> NullItem, assignment |-> NoAssignment, resolved |-> FALSE, duration |-> 0]
NoStream == [state |-> "none"]
NoCycles == [on |-> FALSE, start |-> 0, first |-> Absent, latest |-> Absent]
\* a new first cycle begins
CyclesReset(c) == [c EXCEPT !.start = 0, !.first = Absent, !.latest = Absent]
NoClock == [started |-> FALSE, running |-> FALSE, ran |-> 0]
NoHistory == [on |-> FALSE, loaded |-> FALSE, playlist |-> NoPlaylist, regions |-> EmptyRegions]
\* a load() begins: the session it finds is kept for comparison
Began(h, pl, regs) == IF h.on THEN [h EXCEPT !.playlist = pl, !.regions = regs] ELSE h
\* a load() has ended: whether it completed, and nothing left to compare with
Ended(h, completed) ==
  [on |-> h.on, loaded |-> h.loaded \/ completed, playlist |-> NoPlaylist,
   regions |-> EmptyRegions]

----------------------------------------------------------------------------
(* Initial state: a constructed engine, init() not yet called *)

Init ==
  /\ audioContext = FALSE
  /\ audioTime = 0
  /\ timing = TimingZero
  /\ loop \in BOOLEAN
  /\ status = "idle"
  /\ playlist = NoPlaylist
  /\ currentTime = 0
  /\ cycleCount = 0
  /\ regions = EmptyRegions
  /\ animationFrameId = "null"
  /\ frames = <<>>
  /\ loading = NotLoading
  /\ signals = {}
  /\ emitted = <<>>
  /\ lastOp = "new"
  /\ mid = NoBarrier
  /\ cycles = NoCycles
  /\ calls = 0
  /\ history = NoHistory
  /\ listeners = <<>>
  /\ received = <<>>
  /\ hls = NoStream
  /\ clock = NoClock
  /\ sample = NoSample

\* PlaybackEngine.init -> TimingController.init: the AudioContext is created
EngineInit ==
  /\ ~audioContext
  /\ audioContext' = TRUE
  /\ emitted' = <<>>
  /\ lastOp' = "init"
  /\ mid' = NoBarrier
  /\ received' = EmitAll(listeners, emitted').received
  /\ UNCHANGED <<audioTime, timing, loop, status, playlist, currentTime, cycleCount,
                 regions, animationFrameId, frames, loading, signals, cycles, calls, clock, sample,
                 history, listeners, hls>>

\* the hardware clock moves on by one second, up to max
TimePasses(max) ==
  /\ audioContext
  /\ audioTime < max
  /\ status \in {"playing", "paused"} \/ audioTime < MaxIdleTime
  /\ audioTime' = audioTime + 1
  /\ emitted' = <<>>
  /\ lastOp' = "time"
  /\ mid' = NoBarrier
  /\ received' = EmitAll(listeners, emitted').received
  /\ UNCHANGED <<audioContext, timing, loop, status, playlist, currentTime, cycleCount,
                 regions, animationFrameId, frames, loading, signals, cycles, calls, clock, sample,
                 history, listeners, hls>>

AdvanceTime == TimePasses(MaxTime)

----------------------------------------------------------------------------
(* load() *)

\* first layout region at or after position i whose assignment has content ids
\* (the next await of load), Len(RegionOrder) + 1 if there is none
RECURSIVE NextAwait(_, _)
NextAwait(pl, i) ==
  IF i > Len(RegionOrder) THEN i
  ELSE IF Playlists[pl][RegionOrder[i]].contentIds # <<>> THEN i
  ELSE NextAwait(pl, i + 1)

\* the contents array with the loop over the ids left at the first id not found
RECURSIVE Resolve_StopAtMissing(_)
Resolve_StopAtMissing(ids) ==
  IF ids = <<>> THEN <<>>
  ELSE LET c == contentLoader(Head(ids)) IN
       IF IsNullItem(c) THEN <<>> ELSE <<c>> \o Resolve_StopAtMissing(Tail(ids))

\* the contents array load() builds for an assignment: found items, in order
RECURSIVE Resolve(_)
Resolve(ids) ==
  IF ids = <<>> THEN <<>>
  ELSE LET c == contentLoader(Head(ids)) IN
       (IF IsNullItem(c) THEN <<>> ELSE <<c>>) \o Resolve(Tail(ids))

\* load(), up to its first await
LoadBegin(pl) ==
  /\ loading = NotLoading
  /\ calls < MaxCalls
  /\ playlist' = pl
  /\ regions' = EmptyRegions
  /\ cycleCount' = 0
  /\ LET first == NextAwait(pl, 1) IN
     IF first > Len(RegionOrder)
     THEN /\ loading' = NotLoading
          /\ status' = "idle"
          /\ emitted' = setStatus(status, "loading") \o setStatus("loading", "idle")
          /\ history' = Ended(history, TRUE)
     ELSE /\ loading' = [pl |-> pl, pos |-> first]
          /\ status' = "loading"
          /\ emitted' = setStatus(status, "loading")
          /\ history' = Began(history, playlist, regions)
  /\ signals' = Stale(signals, regions, regions')
  /\ lastOp' = "load"
  /\ mid' = NoBarrier
  /\ cycles' = CyclesReset(cycles)
  /\ calls' = calls + 1
  /\ received' = EmitAll(listeners, emitted').received
  /\ UNCHANGED <<audioContext, audioTime, timing, loop, currentTime, animationFrameId,
                 frames, clock, sample, listeners, hls>>

\* load() resumes after the last await of a region: the region is stored when it
\* has contents, and load() runs on to its next await or to the end
LoadStep ==
  /\ loading # NotLoading
  /\ LET r == RegionOrder[loading.pos]
         assignment == Playlists[loading.pl][r]
         contents == Resolve(assignment.contentIds)
         next == NextAwait(loading.pl, loading.pos + 1)
     IN /\ regions' = IF contents = <<>> THEN regions
                      ELSE [x \in DOMAIN regions \cup {r} |->
                              IF x = r THEN RegionState(assignment, contents) ELSE regions[x]]
        /\ IF next > Len(RegionOrder)
           THEN /\ loading' = NotLoading
                /\ status' = "idle"
                /\ emitted' = setStatus(status, "idle")
                /\ history' = Ended(history, TRUE)
           ELSE /\ loading' = [loading EXCEPT !.pos = next]
                /\ UNCHANGED <<status, history>>
                /\ emitted' = <<>>
  /\ signals' = Stale(signals, regions, regions')
  /\ lastOp' = "loadStep"
  /\ mid' = NoBarrier
  /\ received' = EmitAll(listeners, emitted').received
  /\ UNCHANGED <<audioContext, audioTime, timing, loop, playlist, currentTime, cycleCount,
                 animationFrameId, frames, cycles, calls, clock, sample, listeners, hls>>

\* the content loader rejects: the catch block of load()
LoadThrow ==
  /\ loading # NotLoading
  /\ loading' = NotLoading
  /\ status' = "error"
  /\ emitted' = setStatus(status, "error")
  /\ history' = Ended(history, FALSE)
  /\ lastOp' = "loadThrows"
  /\ mid' = NoBarrier
  /\ received' = EmitAll(listeners, emitted').received
  /\ UNCHANGED <<audioContext, audioTime, timing, loop, playlist, currentTime, cycleCount,
                 regions, animationFrameId, frames, signals, cycles, calls, clock, sample,
                 listeners, hls>>

----------------------------------------------------------------------------
(* play(), pause(), stop() *)

\* PlaybackEngine.stop: the values it leaves behind and the event it emits
stop(regs, st, t, ctx, now, afid, fs) ==
  LET sl == stopLoop(afid, fs) IN
  [timing |-> timingReset(t, ctx, now), currentTime |-> 0, cycleCount |-> 0,
   regions |-> ResetRegions(regs), status |-> "idle",
   animationFrameId |-> sl.id, frames |-> sl.frames, events |-> setStatus(st, "idle"),
   cycles |-> CyclesReset(cycles)]

\* PlaybackEngine.play
Play ==
  /\ calls < MaxCalls
  /\ Len(frames) < MaxFrames
  /\ lastOp' = "play"
  /\ mid' = NoBarrier
  /\ IF status = "playing" \/ playlist = NoPlaylist
     THEN \* already playing: return; nothing loaded: throw before touching anything
          /\ emitted' = <<>>
          /\ UNCHANGED <<timing, status, regions, animationFrameId, frames, signals, cycles>>
     ELSE LET first == status \in {"idle", "error"}
              seeded == IF first THEN initializeRegionContents(regions) ELSE regions
              seedEvents == IF first THEN FlatEvents(RegionIds(regions), regions, 0, "seed")
                            ELSE <<>>
          IN /\ regions' = seeded
             /\ signals' = Stale(signals, regions, seeded)
             /\ cycles' = IF first THEN CyclesReset(cycles) ELSE cycles
             /\ IF ~audioContext
                THEN \* timing.start() throws: not initialised
                     /\ emitted' = seedEvents
                     /\ UNCHANGED <<timing, status, animationFrameId, frames>>
                ELSE /\ timing' = timingStart(timing, audioTime)
                     /\ status' = "playing"
                     /\ emitted' = seedEvents \o setStatus(status, "playing")
                     /\ frames' = RequestFrame(frames)
                     /\ animationFrameId' = "set"
  /\ calls' = calls + 1
  /\ received' = EmitAll(listeners, emitted').received
  /\ UNCHANGED <<audioContext, audioTime, loop, playlist, currentTime, cycleCount,
                 loading, clock, sample,
                 history, listeners, hls>>

\* PlaybackEngine.pause
Pause ==
  /\ calls < MaxCalls
  /\ lastOp' = "pause"
  /\ mid' = NoBarrier
  /\ IF status # "playing"
     THEN /\ emitted' = <<>>
          /\ UNCHANGED <<timing, status, animationFrameId, frames>>
     ELSE LET sl == stopLoop(animationFrameId, frames) IN
          /\ timing' = timingPause(timing, audioContext, audioTime)
          /\ status' = "paused"
          /\ emitted' = setStatus(status, "paused")
          /\ animationFrameId' = sl.id
          /\ frames' = sl.frames
  /\ calls' = calls + 1
  /\ received' = EmitAll(listeners, emitted').received
  /\ UNCHANGED <<audioContext, audioTime, loop, playlist, currentTime, cycleCount,
                 regions, loading, signals, cycles, clock, sample,
                 history, listeners, hls>>

\* PlaybackEngine.stop, called from outside
Stop ==
  LET s == stop(regions, status, timing, audioContext, audioTime, animationFrameId, frames) IN
  /\ calls < MaxCalls
  /\ timing' = s.timing
  /\ currentTime' = s.currentTime
  /\ cycleCount' = s.cycleCount
  /\ regions' = s.regions
  /\ status' = s.status
  /\ animationFrameId' = s.animationFrameId
  /\ frames' = s.frames
  /\ emitted' = s.events
  /\ signals' = Stale(signals, regions, s.regions)
  /\ cycles' = s.cycles
  /\ lastOp' = "stop"
  /\ mid' = NoBarrier
  /\ calls' = calls + 1
  /\ received' = EmitAll(listeners, emitted').received
  /\ UNCHANGED <<audioContext, audioTime, loop, playlist, loading, clock, sample,
                 history, listeners, hls>>

\* PlaybackEngine.dispose: the loop is stopped, the AudioContext closed, the
\* listeners dropped and the state replaced by the initial one (a load() in
\* progress is left to finish first, as a second load() is)
Dispose ==
  LET sl == stopLoop(animationFrameId, frames) IN
  /\ calls < MaxCalls
  /\ loading = NotLoading
  /\ animationFrameId' = sl.id
  /\ frames' = sl.frames
  /\ audioContext' = FALSE
  /\ audioTime' = 0
  /\ timing' = TimingZero
  /\ listeners' = <<>>
  /\ status' = "idle"
  /\ playlist' = NoPlaylist
  /\ currentTime' = 0
  /\ cycleCount' = 0
  /\ regions' = EmptyRegions
  /\ emitted' = <<>>
  /\ received' = <<>>
  /\ signals' = Stale(signals, regions, EmptyRegions)
  /\ cycles' = CyclesReset(cycles)
  /\ history' = [NoHistory EXCEPT !.on = history.on]
  /\ lastOp' = "dispose"
  /\ mid' = NoBarrier
  /\ calls' = calls + 1
  /\ UNCHANGED <<loop, loading, clock, sample, hls>>

----------------------------------------------------------------------------
(* The tick *)

\* the cycle barrier of updateRegions and what follows it: startNewCycle when
\* looping, stop otherwise; adv are the regions after the advances, complete is
\* allRegionsComplete, now the clock's time, ct the value state.currentTime holds,
\* fs the callbacks still outstanding
Barrier(adv, complete, now, ct, fs) ==
  IF complete /\ loop
  THEN [timing |-> timing, currentTime |-> ct, cycleCount |-> cycleCount + 1,
        regions |-> startNewCycle(adv, now), status |-> status,
        animationFrameId |-> animationFrameId, frames |-> fs,
        events |-> FlatEvents(RegionIds(adv), adv, now, "seed")
                     \o <<CycleComplete(cycleCount + 1)>>,
        cycles |-> IF ~cycles.on THEN cycles
                   ELSE [on |-> TRUE, start |-> now,
                         first |-> IF cycles.first = Absent THEN now - cycles.start
                                   ELSE cycles.first,
                         latest |-> now - cycles.start]]
  ELSE IF complete
  THEN stop(adv, status, timing, audioContext, audioTime, animationFrameId, fs)
  ELSE [timing |-> timing, currentTime |-> ct, cycleCount |-> cycleCount,
        regions |-> adv, status |-> status,
        animationFrameId |-> animationFrameId, frames |-> fs, events |-> <<>>,
        cycles |-> cycles]

\* the loop callback of startLoop, run by the browser for the oldest outstanding request
Tick ==
  /\ frames # <<>>
  /\ IF status # "playing"
     THEN /\ frames' = Tail(frames)
          /\ emitted' = <<>>
          /\ lastOp' = "frame"
          /\ mid' = NoBarrier
          /\ UNCHANGED <<timing, status, currentTime, cycleCount, regions,
                         animationFrameId, signals, cycles>>
     ELSE LET now == EngineNow
              adv == AdvancedRegions(regions, now)
              complete == allRegionsComplete(regions, now)
              b == Barrier(adv, complete, now, now, Tail(frames))
              events == FlatEvents(RegionIds(regions), regions, now, "timer") \o b.events
              \* an exception leaving emit would leave loop() before it asks for
              \* the next frame
              thrown == EmitAll(listeners, events).threw
          IN /\ (complete /\ loop) => cycleCount < MaxCycles
             /\ timing' = b.timing
             /\ currentTime' = b.currentTime
             /\ cycleCount' = b.cycleCount
             /\ regions' = b.regions
             /\ status' = b.status
             /\ frames' = IF thrown THEN b.frames ELSE RequestFrame(b.frames)
             /\ animationFrameId' = IF thrown THEN b.animationFrameId ELSE "set"
             /\ emitted' = events
             /\ signals' = Stale(signals, regions, b.regions)
             /\ cycles' = b.cycles
             /\ lastOp' = "tick"
             /\ mid' = [declared |-> complete, now |-> now, regions |-> adv, region |-> "-"]
  /\ received' = EmitAll(listeners, emitted').received
  /\ UNCHANGED <<audioContext, audioTime, loop, playlist, loading, calls, clock, sample,
                 history, listeners, hls>>

----------------------------------------------------------------------------
(* The event path *)

\* ContentRenderer: a video item on screen holds a completion callback, the
\* ended listener or the timeout handleError sets
ArmSignal(r) ==
  /\ r \in DOMAIN regions
  /\ ~IsNull(regions[r].currentContent)
  /\ regions[r].currentContent.content.type = "video"
  /\ [region |-> r, stale |-> FALSE] \notin signals
  /\ Cardinality(signals) < MaxSignals
  /\ signals' = signals \cup {[region |-> r, stale |-> FALSE]}
  /\ emitted' = <<>>
  /\ lastOp' = "arm"
  /\ mid' = NoBarrier
  /\ received' = EmitAll(listeners, emitted').received
  /\ UNCHANGED <<audioContext, audioTime, timing, loop, status, playlist, currentTime,
                 cycleCount, regions, animationFrameId, frames, loading, cycles, calls, clock, sample,
                 history, listeners, hls>>

\* whether notifyContentComplete(r) acts: the region exists and shows an item
NotifyActs(regs, r) == r \in DOMAIN regs /\ ~IsNull(regs[r].currentContent)

\* notifyContentComplete(r): the region's item ends at the clock's time
notifyContentComplete(regs, r, now) ==
  IF NotifyActs(regs, r) THEN [regs EXCEPT ![r] = advanceToNextContent(regs[r], now)]
  ELSE regs

\* SignageEngine.handleContentComplete: a callback fires and the engine is notified
NotifyContentComplete(sig) ==
  /\ sig \in signals
  /\ LET r == sig.region
         now == EngineNow
         adv == notifyContentComplete(regions, r, now)
         complete == \A x \in DOMAIN adv : RegionComplete(adv[x], adv[x], now)
     IN IF ~NotifyActs(regions, r)
        THEN /\ emitted' = <<>>
             /\ signals' = signals \ {sig}
             /\ mid' = [declared |-> FALSE, now |-> now, regions |-> adv, region |-> r]
             /\ UNCHANGED <<timing, status, currentTime, cycleCount, regions,
                            animationFrameId, frames, cycles>>
        ELSE LET b == Barrier(adv, complete, now, currentTime, frames) IN
             /\ (complete /\ loop) => cycleCount < MaxCycles
             /\ timing' = b.timing
             /\ currentTime' = b.currentTime
             /\ cycleCount' = b.cycleCount
             /\ regions' = b.regions
             /\ status' = b.status
             /\ animationFrameId' = b.animationFrameId
             /\ frames' = b.frames
             /\ emitted' = AdvanceEvents(r, regions[r]) \o b.events
             /\ signals' = Stale(signals \ {sig}, regions, regions')
             /\ cycles' = b.cycles
             /\ mid' = [declared |-> complete, now |-> now, regions |-> adv, region |-> r]
  /\ lastOp' = IF sig.stale THEN "notifyStale" ELSE "notify"
  /\ received' = EmitAll(listeners, emitted').received
  /\ UNCHANGED <<audioContext, audioTime, loop, playlist, loading, calls, clock, sample,
                 history, listeners, hls>>

----------------------------------------------------------------------------

Next ==
  \/ EngineInit
  \/ AdvanceTime
  \/ \E pl \in PlaylistIds : LoadBegin(pl)
  \/ LoadStep
  \/ LoadThrow
  \/ Play
  \/ Pause
  \/ Stop
  \/ Dispose
  \/ Tick
  \/ \E r \in AllRegions : ArmSignal(r)
  \/ \E sig \in signals : NotifyContentComplete(sig)

Spec == Init /\ [][Next]_vars

----------------------------------------------------------------------------
(* The TimingController on its own: start(), pause() and the passing of time *)

InitClock ==
  /\ audioContext = TRUE
  /\ audioTime = 0
  /\ timing = TimingZero
  /\ loop = TRUE
  /\ status = "idle"
  /\ playlist = NoPlaylist
  /\ currentTime = 0
  /\ cycleCount = 0
  /\ regions = EmptyRegions
  /\ animationFrameId = "null"
  /\ frames = <<>>
  /\ loading = NotLoading
  /\ signals = {}
  /\ emitted = <<>>
  /\ lastOp = "new"
  /\ mid = NoBarrier
  /\ cycles = NoCycles
  /\ calls = 0
  /\ history = NoHistory
  /\ listeners = <<>>
  /\ received = <<>>
  /\ hls = NoStream
  /\ clock = NoClock
  /\ sample = NoSample

\* timing.start(): a new start sets the stopwatch to zero, a resume lets it run on
ClockStart ==
  /\ timing' = timingStart(timing, audioTime)
  /\ clock' = IF timing.isPaused THEN [clock EXCEPT !.running = TRUE]
              ELSE [started |-> TRUE, running |-> TRUE, ran |-> 0]
  /\ lastOp' = IF timing.isPaused THEN "resume" ELSE "start"
  /\ UNCHANGED <<audioContext, audioTime, loop, status, playlist, currentTime, cycleCount,
                 regions, animationFrameId, frames, loading, signals, emitted, mid,
                 cycles, calls, sample, history, listeners, received, hls>>

\* timing.pause(): the stopwatch is halted
ClockPause ==
  /\ timing' = timingPause(timing, audioContext, audioTime)
  /\ clock' = [clock EXCEPT !.running = FALSE]
  /\ lastOp' = "pause"
  /\ UNCHANGED <<audioContext, audioTime, loop, status, playlist, currentTime, cycleCount,
                 regions, animationFrameId, frames, loading, signals, emitted, mid,
                 cycles, calls, sample, history, listeners, received, hls>>

\* one second passes; the stopwatch counts it when it is running
ClockTime ==
  /\ audioTime < MaxClockTime
  /\ audioTime' = audioTime + 1
  /\ clock' = IF clock.running THEN [clock EXCEPT !.ran = @ + 1] ELSE clock
  /\ lastOp' = "time"
  /\ UNCHANGED <<audioContext, timing, loop, status, playlist, currentTime, cycleCount,
                 regions, animationFrameId, frames, loading, signals, emitted, mid,
                 cycles, calls, sample, history, listeners, received, hls>>

NextClock == ClockStart \/ ClockPause \/ ClockTime

SpecClock == InitClock /\ [][NextClock]_vars

----------------------------------------------------------------------------
(* The duration rule on its own: every kind of item under every kind of assignment *)

SampleTypes == {"video", "image", "hls", "youtube"}
SampleMetaDurations == {Absent, 0, 2, 4}    \* fileInfo.metadata.duration
SampleOverrides ==                       \* assignment.contentDurations
  { <<>>, <<Dur("c", 0)>>, <<Dur("c", 3)>>, <<Dur("x", 3)>>,
    <<Dur("x", 1), Dur("c", 5)>>, <<Dur("c", 1), Dur("x", 5)>> }

InitDuration ==
  /\ audioContext = FALSE
  /\ audioTime = 0
  /\ timing = TimingZero
  /\ loop = TRUE
  /\ status = "idle"
  /\ playlist = NoPlaylist
  /\ currentTime = 0
  /\ cycleCount = 0
  /\ regions = EmptyRegions
  /\ animationFrameId = "null"
  /\ frames = <<>>
  /\ loading = NotLoading
  /\ signals = {}
  /\ emitted = <<>>
  /\ lastOp = "new"
  /\ mid = NoBarrier
  /\ cycles = NoCycles
  /\ calls = 0
  /\ history = NoHistory
  /\ listeners = <<>>
  /\ received = <<>>
  /\ hls = NoStream
  /\ clock = NoClock
  /\ \E type \in SampleTypes, meta \in SampleMetaDurations, durs \in SampleOverrides :
       sample = [content |-> ContentItem("c", type, meta),
                 assignment |-> Assignment(<<"c">>, durs),
                 resolved |-> FALSE, duration |-> 0]

\* the engine resolves the duration of the sampled item
ResolveDuration ==
  /\ ~sample.resolved
  /\ sample' = [sample EXCEPT !.resolved = TRUE,
                              !.duration = getContentDuration(sample.content, sample.assignment)]
  /\ lastOp' = "resolve"
  /\ UNCHANGED <<audioContext, audioTime, timing, loop, status, playlist, currentTime,
                 cycleCount, regions, animationFrameId, frames, loading, signals, emitted,
                 mid, cycles, calls, clock,
                 history, listeners, hls, received>>

NextDuration == ResolveDuration

SpecDuration == InitDuration /\ [][NextDuration]_vars

----------------------------------------------------------------------------
(* Looping playback of a loaded playlist on its own: play(), pause(), the     *)
(* ticks and the passing of time, with the length of every cycle recorded     *)

\* state.regions as a completed load(pl) leaves it
LoadedRegions(pl) ==
  [r \in {x \in AllRegions : Resolve(Playlists[pl][x].contentIds) # <<>>} |->
     RegionState(Playlists[pl][r], Resolve(Playlists[pl][r].contentIds))]

\* init() and load("fixed") have completed on a looping engine
InitCycles ==
  /\ audioContext = TRUE
  /\ audioTime = 0
  /\ timing = TimingZero
  /\ loop = TRUE
  /\ status = "idle"
  /\ playlist = "fixed"
  /\ currentTime = 0
  /\ cycleCount = 0
  /\ regions = LoadedRegions("fixed")
  /\ animationFrameId = "null"
  /\ frames = <<>>
  /\ loading = NotLoading
  /\ signals = {}
  /\ emitted = setStatus("loading", "idle")
  /\ lastOp = "loadStep"
  /\ mid = NoBarrier
  /\ cycles = [NoCycles EXCEPT !.on = TRUE]
  /\ calls = 1
  /\ history = Ended(NoHistory, TRUE)
  /\ listeners = <<>>
  /\ received = <<>>
  /\ hls = NoStream
  /\ clock = NoClock
  /\ sample = NoSample

\* time while whole cycles are timed
CycleTime == TimePasses(MaxCycleTime)

NextCycles == Play \/ Pause \/ CycleTime \/ Tick

SpecCycles == InitCycles /\ [][NextCycles]_vars

----------------------------------------------------------------------------
(* Playback of a loaded playlist with listeners subscribed, some of which throw *)

\* PlaybackEngine.on: the listener is added to the set
On(kind) ==
  /\ Len(listeners) < MaxListeners
  /\ listeners' = Append(listeners, kind)
  /\ emitted' = <<>>
  /\ received' = [i \in 1..Len(listeners') |-> <<>>]
  /\ lastOp' = "on"
  /\ mid' = NoBarrier
  /\ UNCHANGED <<audioContext, audioTime, timing, loop, status, playlist, currentTime,
                 cycleCount, regions, animationFrameId, frames, loading, signals, cycles,
                 calls, clock, sample, history, hls>>

\* the function on() returned is called: the listener is deleted from the set
Off(i) ==
  /\ i \in 1..Len(listeners)
  /\ listeners' = [j \in 1..(Len(listeners) - 1) |->
                     IF j < i THEN listeners[j] ELSE listeners[j + 1]]
  /\ emitted' = <<>>
  /\ received' = [j \in 1..Len(listeners') |-> <<>>]
  /\ lastOp' = "off"
  /\ mid' = NoBarrier
  /\ UNCHANGED <<audioContext, audioTime, timing, loop, status, playlist, currentTime,
                 cycleCount, regions, animationFrameId, frames, loading, signals, cycles,
                 calls, clock, sample, history, hls>>

\* init() and load("fixed") have completed, nobody has subscribed yet
InitListeners ==
  /\ audioContext = TRUE
  /\ audioTime = 0
  /\ timing = TimingZero
  /\ loop \in BOOLEAN
  /\ status = "idle"
  /\ playlist = "fixed"
  /\ currentTime = 0
  /\ cycleCount = 0
  /\ regions = LoadedRegions("fixed")
  /\ animationFrameId = "null"
  /\ frames = <<>>
  /\ loading = NotLoading
  /\ signals = {}
  /\ emitted = setStatus("loading", "idle")
  /\ lastOp = "loadStep"
  /\ mid = NoBarrier
  /\ cycles = NoCycles
  /\ calls = 1
  /\ history = Ended(NoHistory, TRUE)
  /\ listeners = <<>>
  /\ received = <<>>
  /\ hls = NoStream
  /\ clock = NoClock
  /\ sample = NoSample

NextListeners ==
  \/ \E kind \in ListenerKinds : On(kind)
  \/ \E i \in 1..MaxListeners : Off(i)
  \/ AdvanceTime
  \/ Play
  \/ Pause
  \/ Stop
  \/ Tick

SpecListeners == InitListeners /\ [][NextListeners]_vars

----------------------------------------------------------------------------
(* HlsRenderer: the view of a live stream.  hls.js is taken to be loaded and    *)
(* supported.  An event handler, the render its state updates cause and the    *)
(* effects that follow the render are one step.                                *)

\* the component after its first render and the initial connection effect
Mounted ==
  [state |-> "mounted",
   isLoading |-> TRUE,            \* isLoading
   isWaitingForStream |-> FALSE,  \* isWaitingForStream
   retryCount |-> 0,              \* retryCountRef.current
   connectionAttempt |-> 0,       \* connectionAttempt
   instance |-> TRUE,             \* hlsRef.current # null
   interval |-> FALSE,            \* retryIntervalRef.current # null
   videoRef |-> TRUE,             \* videoRef.current # null
   reachable |-> FALSE,           \* the stream can be fetched (environment)
   now |-> 0,                     \* seconds since the mount
   pollStart |-> 0,               \* time the interval was set or last fired
   fast |-> 0,                    \* startLoad() retries since the last manifest or poll
   lastAttempt |-> 0]             \* time waiting began or a reconnection was last tried

\* the render: the video element is left out of both waiting views, and React
\* sets the ref of an element that is not rendered to null before effects run
Render(h) == [h EXCEPT !.videoRef = ~h.isWaitingForStream]

\* the polling effect (dependency isWaitingForStream): cleanup of its last run, then its body
PollingEffect(old, h) ==
  IF old.isWaitingForStream = h.isWaitingForStream THEN h
  ELSE IF ~h.isWaitingForStream THEN [h EXCEPT !.interval = FALSE]
  ELSE IF ~h.videoRef THEN [h EXCEPT !.interval = FALSE]
  ELSE [h EXCEPT !.interval = TRUE, !.pollStart = h.now]

\* the reconnection effect (dependency connectionAttempt): a new Hls instance is
\* made and attached
ReconnectEffect(old, h) ==
  IF old.connectionAttempt = h.connectionAttempt THEN h
  ELSE IF h.connectionAttempt = 0 \/ ~h.videoRef \/ ~h.isWaitingForStream THEN h
  ELSE [h EXCEPT !.isLoading = TRUE, !.instance = TRUE, !.lastAttempt = h.now]

\* what React does once a handler has updated the state from old to h
Commit(old, h) ==
  LET began == IF h.isWaitingForStream /\ ~old.isWaitingForStream
               THEN [h EXCEPT !.lastAttempt = h.now] ELSE h
  IN ReconnectEffect(old, PollingEffect(old, Render(began)))

\* the setInterval callback of the polling effect
PollCallback(h) ==
  [h EXCEPT !.retryCount = 0, !.fast = 0, !.connectionAttempt = @ + 1, !.pollStart = h.now]

\* setIsLoading(false); hls.destroy(); hlsRef.current = null; setIsWaitingForStream(true)
ToWaiting(h) == [h EXCEPT !.isLoading = FALSE, !.instance = FALSE, !.isWaitingForStream = TRUE]

\* the ERROR handler for a fatal NETWORK_ERROR
NetworkErrorHandler(h) ==
  IF h.retryCount < maxRetries
  THEN [h EXCEPT !.retryCount = @ + 1, !.fast = @ + 1]
  ELSE ToWaiting(h)

\* a step of the component: the handler's result is committed
StreamStep(h, op) ==
  /\ hls' = Commit(hls, h)
  /\ lastOp' = op
  /\ UNCHANGED <<audioContext, audioTime, timing, loop, status, playlist, currentTime,
                 cycleCount, regions, animationFrameId, frames, loading, signals, emitted,
                 mid, cycles, calls, clock, sample, history, listeners, received>>

\* MANIFEST_PARSED: the stream is live
ManifestParsed ==
  /\ hls.instance /\ hls.reachable /\ hls.isLoading
  /\ StreamStep([hls EXCEPT !.isLoading = FALSE, !.isWaitingForStream = FALSE,
                            !.retryCount = 0, !.fast = 0, !.interval = FALSE],
                "manifestParsed")

\* ERROR, fatal, NETWORK_ERROR
NetworkError ==
  /\ hls.instance
  /\ StreamStep(NetworkErrorHandler(hls), "networkError")

\* ERROR, fatal, MEDIA_ERROR: hls.recoverMediaError()
MediaError ==
  /\ hls.instance
  /\ StreamStep(hls, "mediaError")

\* ERROR, fatal, any other type
OtherError ==
  /\ hls.instance
  /\ StreamStep(ToWaiting(hls), "otherError")

\* BUFFER_EOS: the broadcast has ended
BufferEos ==
  /\ hls.instance /\ ~hls.isLoading
  /\ StreamStep([hls EXCEPT !.instance = FALSE, !.isWaitingForStream = TRUE], "bufferEos")

\* onEnded of the video element
VideoEnded ==
  /\ hls.videoRef /\ ~hls.isLoading
  /\ StreamStep([hls EXCEPT !.instance = FALSE, !.isWaitingForStream = TRUE], "videoEnded")

\* the broadcast starts or stops being reachable
StreamToggle ==
  /\ hls.state = "mounted"
  /\ StreamStep([hls EXCEPT !.reachable = ~@], "reachability")

\* a second passes; the interval's callback runs when it is due
StreamTime ==
  /\ hls.state = "mounted"
  /\ hls.now < MaxStreamTime
  /\ LET h == [hls EXCEPT !.now = @ + 1] IN
     StreamStep(IF h.interval /\ h.now - h.pollStart = retryInterval THEN PollCallback(h) ELSE h,
                "streamTime")

InitStream ==
  /\ audioContext = FALSE
  /\ audioTime = 0
  /\ timing = TimingZero
  /\ loop = TRUE
  /\ status = "idle"
  /\ playlist = NoPlaylist
  /\ currentTime = 0
  /\ cycleCount = 0
  /\ regions = EmptyRegions
  /\ animationFrameId = "null"
  /\ frames = <<>>
  /\ loading = NotLoading
  /\ signals = {}
  /\ emitted = <<>>
  /\ lastOp = "mount"
  /\ mid = NoBarrier
  /\ cycles = NoCycles
  /\ calls = 0
  /\ history = NoHistory
  /\ listeners = <<>>
  /\ received = <<>>
  /\ hls = Mounted
  /\ clock = NoClock
  /\ sample = NoSample

NextStream ==
  \/ ManifestParsed
  \/ NetworkError
  \/ MediaError
  \/ OtherError
  \/ BufferEos
  \/ VideoEnded
  \/ StreamToggle
  \/ StreamTime

SpecStream == InitStream /\ [][NextStream]_vars

----------------------------------------------------------------------------
(* Playback of a loaded playlist whose region A shows a video and then a live *)
(* stream, with the completion callbacks of the presentation adapter          *)

\* init() and load("mixed") have completed
InitLive ==
  /\ audioContext = TRUE
  /\ audioTime = 0
  /\ timing = TimingZero
  /\ loop = TRUE
  /\ status = "idle"
  /\ playlist = "mixed"
  /\ currentTime = 0
  /\ cycleCount = 0
  /\ regions = LoadedRegions("mixed")
  /\ animationFrameId = "null"
  /\ frames = <<>>
  /\ loading = NotLoading
  /\ signals = {}
  /\ emitted = setStatus("loading", "idle")
  /\ lastOp = "loadStep"
  /\ mid = NoBarrier
  /\ cycles = NoCycles
  /\ calls = 1
  /\ history = Ended(NoHistory, TRUE)
  /\ listeners = <<>>
  /\ received = <<>>
  /\ hls = NoStream
  /\ clock = NoClock
  /\ sample = NoSample

NextLive ==
  \/ AdvanceTime
  \/ Play
  \/ Pause
  \/ Tick
  \/ \E r \in AllRegions : ArmSignal(r)
  \/ \E sig \in signals : NotifyContentComplete(sig)

SpecLive == InitLive /\ [][NextLive]_vars

----------------------------------------------------------------------------
(* Playback without looping, left to run: the browser keeps running the frame *)
(* callbacks and the clock keeps counting                                     *)

\* init() and a load() have completed on an engine with loop off
InitRun ==
  /\ audioContext = TRUE
  /\ audioTime = 0
  /\ timing = TimingZero
  /\ loop = FALSE
  /\ status = "idle"
  /\ playlist \in PlaylistIds
  /\ currentTime = 0
  /\ cycleCount = 0
  /\ regions = LoadedRegions(playlist)
  /\ animationFrameId = "null"
  /\ frames = <<>>
  /\ loading = NotLoading
  /\ signals = {}
  /\ emitted = setStatus("loading", "idle")
  /\ lastOp = "loadStep"
  /\ mid = NoBarrier
  /\ cycles = NoCycles
  /\ calls = 1
  /\ history = Ended(NoHistory, TRUE)
  /\ listeners = <<>>
  /\ received = <<>>
  /\ hls = NoStream
  /\ clock = NoClock
  /\ sample = NoSample

\* a second of playback passes; past MaxRunTime the frame callbacks come in
\* time, so that the clock stands at the end of the item that ends first
RunTime ==
  /\ status = "playing"
  /\ \/ EngineNow < MaxRunTime
     \/ /\ \E r \in DOMAIN regions : ~IsNull(regions[r].currentContent)
        /\ \A r \in DOMAIN regions :
             ~IsNull(regions[r].currentContent) => EngineNow < regions[r].currentContent.endTime
  /\ audioTime' = audioTime + 1
  /\ emitted' = <<>>
  /\ received' = EmitAll(listeners, emitted').received
  /\ lastOp' = "time"
  /\ mid' = NoBarrier
  /\ UNCHANGED <<audioContext, timing, loop, status, playlist, currentTime, cycleCount,
                 regions, animationFrameId, frames, loading, signals, cycles, calls, clock,
                 sample, history, listeners, hls>>

NextRun == Play \/ RunTime \/ Tick

\* requestAnimationFrame callbacks are run, and time does not stand still
SpecRun == InitRun /\ [][NextRun]_vars /\ WF_vars(Tick) /\ WF_vars(RunTime)

----------------------------------------------------------------------------
(* A paused engine: what load(), play(), pause() and stop() make of it *)

\* init(), load("example") and play() have completed, and pause() a second later;
\* no frame callback has run; calls counts the calls that follow
InitResume ==
  /\ audioContext = TRUE
  /\ audioTime = 1
  /\ timing = timingPause(timingStart(TimingZero, 0), TRUE, 1)
  /\ loop \in BOOLEAN
  /\ status = "paused"
  /\ playlist = "example"
  /\ currentTime = 0
  /\ cycleCount = 0
  /\ regions = initializeRegionContents(LoadedRegions("example"))
  /\ animationFrameId = "null"
  /\ frames = <<>>
  /\ loading = NotLoading
  /\ signals = {}
  /\ emitted = setStatus("playing", "paused")
  /\ lastOp = "pause"
  /\ mid = NoBarrier
  /\ cycles = NoCycles
  /\ calls = 0
  /\ history = Ended(NoHistory, TRUE)
  /\ listeners = <<>>
  /\ received = <<>>
  /\ hls = NoStream
  /\ clock = NoClock
  /\ sample = NoSample

NextResume ==
  \/ AdvanceTime
  \/ \E pl \in PlaylistIds : LoadBegin(pl)
  \/ LoadStep
  \/ LoadThrow
  \/ Play
  \/ Pause
  \/ Stop
  \/ Tick

SpecResume == InitResume /\ [][NextResume]_vars

----------------------------------------------------------------------------
(* A second load() on an engine that holds a loaded session, with the session *)
(* each load() finds recorded                                                 *)

\* init() and load("example") have completed
InitReload ==
  /\ audioContext = TRUE
  /\ audioTime = 0
  /\ timing = TimingZero
  /\ loop \in BOOLEAN
  /\ status = "idle"
  /\ playlist = "example"
  /\ currentTime = 0
  /\ cycleCount = 0
  /\ regions = LoadedRegions("example")
  /\ animationFrameId = "null"
  /\ frames = <<>>
  /\ loading = NotLoading
  /\ signals = {}
  /\ emitted = setStatus("loading", "idle")
  /\ lastOp = "loadStep"
  /\ mid = NoBarrier
  /\ cycles = NoCycles
  /\ calls = 1
  /\ history = [Ended(NoHistory, TRUE) EXCEPT !.on = TRUE]
  /\ listeners = <<>>
  /\ received = <<>>
  /\ hls = NoStream
  /\ clock = NoClock
  /\ sample = NoSample

NextReload ==
  \/ AdvanceTime
  \/ \E pl \in PlaylistIds : LoadBegin(pl)
  \/ LoadStep
  \/ LoadThrow
  \/ Play
  \/ Pause
  \/ Stop
  \/ Tick

SpecReload == InitReload /\ [][NextReload]_vars

----------------------------------------------------------------------------
(* Claims *)

\* a region has exhausted its list at time t: it is at its last item and that
\* item is gone or has reached its end
Exhausted(rs, t) ==
  /\ rs.currentIndex >= Len(rs.contents) - 1
  /\ IsNull(rs.currentContent) \/ t >= rs.currentContent.endTime

\* C1: a tick declares the cycle complete only if every scheduled region, as the
\* advances of that tick left it, is at its last item and not mid-playback.
C1_CycleBarrier ==
  (lastOp = "tick" /\ mid.declared) =>
     \A r \in DOMAIN mid.regions : Exhausted(mid.regions[r], mid.now)

\* the cycleComplete events among the events of the last operation
CycleEvents == SelectSeq(emitted, LAMBDA e : e.type = "cycleComplete")

\* C2: when a tick declares the cycle complete and looping is on, every scheduled
\* region is put back to index 0 with its item started at the time the tick read
\* from the clock, cycleCount goes up by exactly one, and exactly one cycleComplete
\* event is emitted, carrying the new cycleCount.
C2_CycleReseed ==
  [][(lastOp' = "tick" /\ mid'.declared /\ loop) =>
       /\ mid'.now = EngineNow
       /\ cycleCount' = cycleCount + 1
       /\ DOMAIN regions' = DOMAIN regions
       /\ \A r \in DOMAIN regions' :
            /\ regions'[r].currentIndex = 0
            /\ ~IsNull(regions'[r].currentContent)
            /\ regions'[r].currentContent.content = At(regions'[r].contents, 0)
            /\ regions'[r].currentContent.startTime = mid'.now
       /\ CycleEvents' = <<CycleComplete(cycleCount + 1)>>]_vars

\* C2 witness: a looping engine whose two regions were reseeded by a tick at a
\* time later than 0
C2_Witness ==
  /\ lastOp = "tick" /\ mid.declared /\ loop
  /\ cycleCount >= 1 /\ mid.now >= 1
  /\ DOMAIN regions = AllRegions
  /\ \A r \in DOMAIN regions : regions[r].currentContent.startTime = mid.now

\* C3: looping over the playlist whose regions all have two items of fixed
\* duration, with both regions scheduled, every cycle a tick completes took as
\* long as the first cycle, and the tick declares the cycle complete only once
\* every region's final item has reached its end.
C3_EqualCycleSpacing ==
  (lastOp = "tick" /\ mid.declared /\ loop /\ playlist = "fixed"
     /\ DOMAIN mid.regions = AllRegions) =>
     /\ cycles.latest = cycles.first
     /\ \A r \in DOMAIN mid.regions : Exhausted(mid.regions[r], mid.now)

C6_UnknownVideoPlaceholder ==
  \A r \in DOMAIN regions :
     LET cc == regions[r].currentContent IN
     (/\ ~IsNull(cc)
      /\ cc.content.type = "video"
      /\ cc.content.metaDuration = Absent
      /\ \A i \in 1..Len(regions[r].assignment.contentDurations) :
            regions[r].assignment.contentDurations[i].contentId # cc.content.id)
       => /\ cc.duration >= placeholderDuration
          /\ cc.endTime >= cc.startTime + placeholderDuration

C8_ClockNoLoss ==
  clock.started => getCurrentTime(timing, audioContext, audioTime) = clock.ran

\* C8 witness: the clock has run, was paused for a while and has just resumed
C8_Witness ==
  /\ lastOp = "resume" /\ clock.started /\ clock.ran >= 1
  /\ timing.totalPausedDuration >= 1
  /\ getCurrentTime(timing, audioContext, audioTime) = clock.ran

\* C9: while the status stays playing the clock's reading never goes down, while
\* it stays paused the reading does not move, pause() and the play() that resumes
\* leave the reading where it was, the resuming play() leaves every region as it
\* is, and a tick stores the reading as the engine's elapsed time.
C9_ElapsedTime ==
  [][/\ (status = "playing" /\ status' = "playing") => EngineNow' >= EngineNow
     /\ (status = "paused" /\ status' = "paused") => EngineNow' = EngineNow
     /\ (status = "playing" /\ status' = "paused") => EngineNow' = EngineNow
     /\ (status = "paused" /\ status' = "playing") =>
          /\ EngineNow' = EngineNow
          /\ regions' = regions
          /\ emitted' = <<StatusChange("playing")>>
     /\ (lastOp' = "tick" /\ status' = "playing") =>
          /\ currentTime' = EngineNow
          /\ currentTime' = mid'.now]_vars

\* C9 witness: a tick after a pause that lasted a while reads a time that leaves
\* the pause out
C9_Witness ==
  /\ lastOp = "tick" /\ status = "playing"
  /\ timing.totalPausedDuration >= 1
  /\ currentTime >= 1
  /\ currentTime = audioTime - timing.startTime - timing.totalPausedDuration
  /\ \E r \in DOMAIN regions : ~IsNull(regions[r].currentContent)

\* C10: the item a region shows ends at its start time plus its duration.
C10_EndTime ==
  \A r \in DOMAIN regions :
     ~IsNull(regions[r].currentContent) =>
        regions[r].currentContent.endTime =
          regions[r].currentContent.startTime + regions[r].currentContent.duration

\* C10 witness: after a cycle restart at a time later than 0 a region shows an
\* item it has advanced to since
C10_Witness ==
  /\ cycleCount >= 1
  /\ \E r \in DOMAIN regions :
       /\ ~IsNull(regions[r].currentContent)
       /\ regions[r].currentIndex = 1
       /\ regions[r].currentContent.startTime >= 2
       /\ regions[r].currentContent.duration >= 1

\* the error events among the events of the last operation
ErrorEvents == SelectSeq(emitted, LAMBDA e : e.type = "error")

\* C11: when the content loader throws during load(), the status becomes error,
\* an error event is emitted, and no region stored before the failure is kept.
C11_LoadFailure ==
  lastOp = "loadThrows" =>
     /\ status = "error"
     /\ ErrorEvents # <<>>
     /\ regions = EmptyRegions

\* C12: a load() that fails leaves the session loaded before it as it was: the
\* playlist and layout, and every region with its playback state.
C12_FailedLoadKeepsSession ==
  [][(lastOp' = "loadThrows" /\ history.on /\ history.loaded) =>
       /\ playlist' = history.playlist
       /\ regions' = history.regions]_vars

\* C13: play() starts playback only after some load() has completed; with no
\* load() called, or only failed ones, it seeds no region, starts neither the clock
\* nor the loop, and does not set the status to playing.
C13_PlayNeedsLoad ==
  [][(lastOp' = "play" /\ ~history.loaded /\ loading = NotLoading) =>
       /\ UNCHANGED <<regions, timing, status, frames, animationFrameId>>
       /\ emitted' = <<>>]_vars

\* the contentChange events among the events of the last operation
ContentChanges == SelectSeq(emitted, LAMBDA e : e.type = "contentChange")

\* what C14 says of a play() step
PlaySeeds ==
  /\ status \in {"idle", "error"} =>
       /\ status' = "playing"
       /\ DOMAIN regions' = DOMAIN regions
       /\ \A r \in DOMAIN regions' :
            /\ regions'[r].currentIndex = 0
            /\ regions'[r].currentContent.content = At(regions[r].contents, 0)
            /\ regions'[r].currentContent.startTime = 0
       /\ Len(ContentChanges') = Cardinality(DOMAIN regions)
       /\ \A r \in DOMAIN regions :
            \E i \in 1..Len(ContentChanges') :
               ContentChanges'[i] = ContentChange(r, At(regions[r].contents, 0), 0)
  /\ status = "paused" =>
       /\ regions' = regions
       /\ ContentChanges' = <<>>

\* C14 as stated: after a load, play() in status idle or error puts every
\* scheduled region at index 0 showing its first item with start time 0, emits
\* exactly one contentChange per scheduled region, with index 0, and sets the
\* status to playing; play() in status paused leaves every region as it is and
\* emits no contentChange.
C14_PlaySeedsAlways ==
  [][(lastOp' = "play" /\ playlist # NoPlaylist) => PlaySeeds]_vars

\* C14, amended: the same, for play() on an engine whose init() has been called.
C14_PlaySeeds ==
  [][(lastOp' = "play" /\ playlist # NoPlaylist /\ audioContext) => PlaySeeds]_vars

\* C14 witness: play() has started a loaded session of two regions whose earlier
\* run had reached a later elapsed time
C14_Witness ==
  /\ lastOp = "play" /\ status = "playing"
  /\ DOMAIN regions = AllRegions
  /\ Len(ContentChanges) = 2
  /\ currentTime >= 1
  /\ \A r \in DOMAIN regions : regions[r].currentContent.startTime = 0

\* C15: after stop(), called from outside in any status or by the tick that
\* completes the cycle with looping off, the status is idle, the elapsed time and
\* cycleCount are 0, the clock is not paused and reads 0, and every region is at
\* index 0 showing nothing; a play() on the stopped, initialised engine then starts
\* the first item of every region at time 0 with the clock reading 0.
C15_StopResets ==
  [][/\ (lastOp' = "stop" \/ (lastOp' = "tick" /\ mid'.declared /\ ~loop)) =>
          /\ status' = "idle"
          /\ currentTime' = 0
          /\ cycleCount' = 0
          /\ ~timing'.isPaused
          /\ EngineNow' = 0
          /\ DOMAIN regions' = DOMAIN regions
          /\ \A r \in DOMAIN regions' :
               regions'[r].currentIndex = 0 /\ IsNull(regions'[r].currentContent)
     /\ (lastOp' = "play" /\ status = "idle" /\ ~timing.isPaused /\ audioContext
           /\ playlist # NoPlaylist) =>
          /\ EngineNow' = 0
          /\ \A r \in DOMAIN regions' :
               /\ regions'[r].currentIndex = 0
               /\ regions'[r].currentContent.content = At(regions'[r].contents, 0)
               /\ regions'[r].currentContent.startTime = 0]_vars

\* C15 witness: stop() has ended a run that had gone on for two seconds or more,
\* with both regions scheduled
C15_Witness ==
  /\ lastOp = "stop" /\ status = "idle"
  /\ audioTime >= 2 /\ timing.startTime = audioTime
  /\ DOMAIN regions = AllRegions
  /\ emitted = <<StatusChange("idle")>>

\* the items the loader finds for a list of ids, in the order of the ids
Found(ids) ==
  SelectSeq([i \in 1..Len(ids) |-> contentLoader(ids[i])], LAMBDA c : ~IsNullItem(c))

C17_ListenerIsolation ==
  /\ Len(received) = Len(listeners)
  /\ \A i \in 1..Len(listeners) : received[i] = emitted
  /\ (lastOp = "tick" /\ status = "playing") =>
        /\ animationFrameId = "set"
        /\ frames # <<>> /\ frames[Len(frames)]

\* C17 witness: a tick advanced a region while a throwing listener was subscribed
\* ahead of another one, and the second was called with the contentChange
C17_Witness ==
  /\ lastOp = "tick" /\ status = "playing"
  /\ listeners = <<"throws", "ok">>
  /\ \E i \in 1..Len(emitted) : emitted[i].type = "contentChange"
  /\ received[2] = emitted
  /\ frames # <<>>

\* C18: once stop() or dispose() has returned, also a stop() made by the tick that
\* completes the cycle with looping off, no frame callback is outstanding and
\* animationFrameId is null.
C18_StopCancelsFrame ==
  (lastOp \in {"stop", "dispose"} \/ (lastOp = "tick" /\ mid.declared /\ ~loop)) =>
     /\ frames = <<>>
     /\ animationFrameId = "null"

\* C19: a fatal network error is answered by an immediate retry while fewer than
\* maxRetries retries were made since the last manifest or the start of the poll
\* attempt; the network error after that makes no retry, puts the view in waiting,
\* and has the polling interval running from that moment.
C19_FastRetriesThenPolling ==
  [][lastOp' = "networkError" =>
       IF hls.fast < maxRetries
       THEN /\ hls'.fast = hls.fast + 1
            /\ hls'.isWaitingForStream = hls.isWaitingForStream
       ELSE /\ hls'.fast = hls.fast
            /\ hls'.isWaitingForStream
            /\ hls'.interval
            /\ hls'.pollStart = hls'.now]_vars

\* C20: while the view is waiting, no more than the poll interval passes without
\* a reconnection attempt.
C20_WaitingReconnects ==
  hls.isWaitingForStream => hls.now - hls.lastAttempt <= retryInterval

\* region r shows a live-stream item whose duration has not elapsed at time t
StreamRunning(regs, r, t) ==
  /\ r \in DOMAIN regs
  /\ ~IsNull(regs[r].currentContent)
  /\ regs[r].currentContent.content.type = "hls"
  /\ t < regs[r].currentContent.endTime

TimeUpdates == SelectSeq(emitted, LAMBDA e : e.type = "timeUpdate")

\* C22: a tick that ran its body and leaves the status playing has emitted a
\* timeUpdate event (carrying the time the tick read from the clock).
C22_TickEmitsTimeUpdate ==
  (lastOp = "tick" /\ status = "playing") => Len(TimeUpdates) = 1

\* the contentChange events of region r among the events of the last operation
ChangesOf(r) == SelectSeq(emitted, LAMBDA e : e.type = "contentChange" /\ e.regionId = r)

\* C23: a tick that finds a region's last item ended, and does not end the cycle,
\* leaves the region showing nothing and emits no contentChange for it; and a
\* region that shows nothing while the status is playing or paused stays so, with
\* no contentChange, through every step that is not a cycle start, stop(),
\* load() or dispose().
C23_RegionGoesDark ==
  [][\A r \in DOMAIN regions :
       LET rs == regions[r]
           last == rs.currentIndex >= Len(rs.contents) - 1
           unbroken == /\ lastOp' \notin {"stop", "dispose", "load"}
                       /\ lastOp' \in {"tick", "notify", "notifyStale"} => ~mid'.declared
       IN /\ (lastOp' = "tick" /\ ~mid'.declared /\ status = "playing" /\ last
                /\ ~IsNull(rs.currentContent) /\ mid'.now >= rs.currentContent.endTime) =>
               /\ IsNull(regions'[r].currentContent)
               /\ ChangesOf(r)' = <<>>
          /\ (status \in {"playing", "paused"} /\ last /\ IsNull(rs.currentContent)
                /\ unbroken) =>
               /\ r \in DOMAIN regions'
               /\ IsNull(regions'[r].currentContent)
               /\ ChangesOf(r)' = <<>>]_vars

\* C23 witness: region B has shown its only item and is dark while a later tick
\* finds region A still playing
C23_Witness ==
  /\ lastOp = "tick" /\ status = "playing" /\ ~mid.declared
  /\ playlist = "example" /\ DOMAIN regions = AllRegions
  /\ IsNull(regions["B"].currentContent)
  /\ ~IsNull(regions["A"].currentContent)
  /\ regions["A"].currentIndex = 1
  /\ currentTime >= 2

\* stop() has just run inside the tick that found every region exhausted
StoppedByTick ==
  /\ lastOp = "tick" /\ mid.declared /\ ~loop
  /\ \A r \in DOMAIN mid.regions : Exhausted(mid.regions[r], mid.now)
  /\ status = "idle" /\ currentTime = 0 /\ cycleCount = 0 /\ EngineNow = 0
  /\ \A r \in DOMAIN regions :
       regions[r].currentIndex = 0 /\ IsNull(regions[r].currentContent)

\* C24: with looping off, playback that play() has started leads to a tick that
\* finds every region exhausted and stops the engine: status idle, elapsed time
\* and cycleCount 0, every region cleared.
C24_RunEndsInStop == (status = "playing") ~> StoppedByTick

\* C24 witness: the run of the example playlist has been stopped by the tick at
\* twelve seconds, region B having been dark since its only item ended
C24_Witness ==
  /\ StoppedByTick
  /\ playlist = "example"
  /\ mid.now >= 12


\* C25: a play() made while load() is still in progress (status loading) does
\* not start the clock, does not start the per-frame loop and does not set the
\* status to playing.
C25_PlayWaitsForLoad ==
  [][(loading # NotLoading /\ status = "loading" /\ lastOp' = "play") =>
       /\ status' # "playing"
       /\ timing' = timing
       /\ frames' = frames
       /\ animationFrameId' = animationFrameId]_vars


\* C26: with no detected durations recorded, the progress helper resolves the
\* duration of every item under every assignment to the value the scheduler
\* computes for it.
C26_HelperAgreesWithScheduler ==
  sample.resolved =>
    helperContentDuration(sample.content, sample.assignment, {}, 0) = sample.duration


\* C27: whenever play() seeds the regions at start time 0 (a play() in status
\* idle or error that starts playback), the clock's elapsed time restarts from 0
\* with it, whatever load(), play(), pause() and stop() calls came before.
C27_SeedRestartsClock ==
  [][(lastOp' = "play" /\ status \in {"idle", "error"} /\ status' = "playing") =>
       EngineNow' = 0]_vars


\* C28: a cycle is counted only after items have been shown: a tick on a loaded
\* playlist that has no scheduled region emits no cycleComplete and leaves
\* cycleCount at 0.
C28_NoCycleWithoutItems ==
  (lastOp = "tick" /\ loading = NotLoading /\ DOMAIN mid.regions = {}) =>
     (CycleEvents = <<>> /\ cycleCount = 0)


\* C29: at most one frame callback is outstanding at any time, and it is the one
\* whose id animationFrameId holds.
C29_OneFrameOutstanding ==
  /\ Len(frames) <= 1
  /\ frames # <<>> => (frames[1] /\ animationFrameId = "set")


\* currentIndex is inside the list and a current item is contents[currentIndex]
IndexInsideList ==
  \A r \in DOMAIN regions :
    /\ regions[r].currentIndex \in 0..(Len(regions[r].contents) - 1)
    /\ ~IsNull(regions[r].currentContent) =>
         regions[r].currentContent.content = At(regions[r].contents, regions[r].currentIndex)

\* what a step does to the items of region r: it shows the first item (a start of
\* playback or of a cycle), or the item after the one on screen, or leaves the
\* index alone or back at 0
NextItemOnly(r) ==
  LET changes == ChangesOf(r)' IN
  /\ Len(changes) <= 1
  /\ (changes = <<>> /\ r \in DOMAIN regions /\ r \in DOMAIN regions') =>
       regions'[r].currentIndex \in {regions[r].currentIndex, 0}
  /\ changes # <<>> =>
       /\ r \in DOMAIN regions /\ r \in DOMAIN regions'
       /\ regions'[r].currentIndex = changes[1].index
       /\ ~IsNull(regions'[r].currentContent)
       /\ changes[1].content = regions'[r].currentContent.content.id
       /\ \/ changes[1].index = 0
          \/ /\ ~IsNull(regions[r].currentContent)
             /\ changes[1].index = regions[r].currentIndex + 1
             /\ changes[1].index <= Len(regions[r].contents) - 1

\* C30: no item is skipped or repeated within a cycle: the contentChange events of
\* a region carry 0 at a start and then the next index each, one at a time and
\* never beyond the last item, also when the tick comes after several end times
\* have passed; currentIndex stays inside the list and a current item is
\* contents[currentIndex].
C30_ItemsInOrder ==
  /\ []IndexInsideList
  /\ [][\A r \in AllRegions : NextItemOnly(r)]_vars

\* C30 witness: a tick that came a second late, after the end times of the first
\* items of both regions, has moved each region of the fixed playlist to its
\* second item, started at the time of the tick
C30_Witness ==
  /\ lastOp = "tick" /\ status = "playing" /\ playlist = "fixed"
  /\ DOMAIN regions = AllRegions
  /\ Len(ChangesOf("A")) = 1 /\ Len(ChangesOf("B")) = 1
  /\ \A r \in AllRegions :
       /\ regions[r].currentIndex = 1
       /\ ~IsNull(regions[r].currentContent)
       /\ regions[r].currentContent.startTime = 2

====
